---- MODULE Spec2Model ----
(***************************************************************************)
(* Model of the domain handlers twitchClipEmbed (src/src/embeds/twitch.ts) *)
(* and youtubeEmbed (src/src/embeds/youtube.ts).                           *)
(*                                                                         *)
(* One behaviour is one call of one handler: Init draws the arguments     *)
(* (the link, the post), the actions are the stretches of the handler     *)
(* between its suspension points (await fetch), and head is the ordered   *)
(* sequence of calls made on the meta-directive sink (head.meta,          *)
(* head.image, head.video).                                                *)
(*                                                                         *)
(* A JavaScript string is a sequence of tokens.  A token is a TLA+ string  *)
(* standing for one or more characters that are never split; the          *)
(* characters the code or the URL syntax treats specially ("/", "&", "=", *)
(* "?", the decimal digits) are tokens of their own.  An optional value   *)
(* (undefined / null / absent field) is None, a present one is Some(x).   *)
(***************************************************************************)
EXTENDS Integers, Sequences, FiniteSets, TLC

VARIABLES handler, url, post, pc, head, fetches, resp

vars == <<handler, url, post, pc, head, fetches, resp>>

\* ------------------------------------------------------------ bounds
\* Longest path, in segments, of the links the handlers are called with.
MaxSegs == 3

\* ------------------------------------------------------------ values
None == << >>
Some(x) == << x >>
IsSome(o) == o # None
\* JavaScript truthiness of an optional string: present and non-empty.
Truthy(o) == o # None /\ o[1] # << >>


\* A one-token string.
Str(tok) == << tok >>

\* String.prototype.split(sep) for a one-character separator: the pieces
\* between consecutive separators (and the two ends), in order.
Split(s, sep) ==
    LET cuts   == { 0, Len(s) + 1 } \cup { i \in 1..Len(s) : s[i] = sep }
        cut(k) == CHOOSE i \in cuts : Cardinality({ j \in cuts : j < i }) = k - 1
    IN  [k \in 1..(Cardinality(cuts) - 1) |-> SubSeq(s, cut(k) + 1, cut(k + 1) - 1)]

\* Array.prototype.indexOf: the 0-based index of the first x, or -1.
IndexOf(xs, x) ==
    LET at == { i \in 1..Len(xs) : xs[i] = x }
    IN  IF at = {} THEN -1 ELSE (CHOOSE i \in at : \A j \in at : i <= j) - 1

\* xs[i] of a JavaScript array (0-based).
At(xs, i) == xs[i + 1]

\* String.prototype.substring(1).
Substring1(s) == IF s = << >> THEN << >> ELSE Tail(s)

\* String.prototype.startsWith.
StartsWith(s, prefix) ==
    Len(s) >= Len(prefix) /\ SubSeq(s, 1, Len(prefix)) = prefix

\* ------------------------------------------------------------ URLs
\* application/x-www-form-urlencoded byte serialisation, per token: the
\* characters outside [A-Za-z0-9*-._] are percent-encoded.
FormEncodeToken(tok) ==
    CASE tok = "/" -> "%2F"
      [] tok = "&" -> "%26"
      [] tok = "=" -> "%3D"
      [] tok = "?" -> "%3F"
      [] OTHER     -> tok

FormEncode(s) == [i \in 1..Len(s) |-> FormEncodeToken(s[i])]

RECURSIVE SerializeParams(_)
\* URLSearchParams serialisation: name=value pairs joined by "&".
SerializeParams(ps) ==
    IF ps = << >> THEN << >>
    ELSE FormEncode(ps[1][1]) \o Str("=") \o FormEncode(ps[1][2])
         \o (IF Len(ps) = 1 THEN << >> ELSE Str("&") \o SerializeParams(Tail(ps)))

\* URLSearchParams.append(name, value).
ParamsAppend(ps, name, value) == Append(ps, << name, value >>)

\* URLSearchParams.set(name, value): the first pair of that name takes the
\* value and the others are removed; with none, the pair is appended.
ParamsSet(ps, name, value) ==
    LET first == IndexOf([i \in 1..Len(ps) |-> ps[i][1]], name) + 1
    IN  IF first = 0 THEN Append(ps, << name, value >>)
        ELSE LET keep == SelectSeq([i \in 1..Len(ps) |-> << i, ps[i] >>],
                                   LAMBDA e : e[2][1] # name \/ e[1] = first)
             IN  [i \in 1..Len(keep) |->
                    IF keep[i][1] = first THEN << name, value >> ELSE keep[i][2]]

\* URL.prototype.toString of a URL with no fragment.
UrlToString(u) ==
    u.base \o (IF u.searchParams = << >> THEN << >>
               ELSE Str("?") \o SerializeParams(u.searchParams))

\* ------------------------------------------------------------ the sink
Meta(property, content) ==
    [kind |-> "meta", property |-> property, content |-> content]
Image(u, width, height) ==
    [kind |-> "image", url |-> u, width |-> width, height |-> height]
Video(u, width, height, type) ==
    [kind |-> "video", url |-> u, width |-> width, height |-> height, type |-> type]

\* ------------------------------------------------------------ twitch.ts
TWITCH_ANCESTORS ==
    << "twitter.com", "x.com", "cards-frame.twitter.com", "tweetdeck.twitter.com",
       "discordapp.com", "discord.com", "ptb.discordapp.com", "ptb.discord.com",
       "canary.discordapp.com", "canary.discord.com", "embedly.com",
       "cdn.embedly.com", "facebook.com", "www.facebook.com", "meta.com",
       "www.meta.com", "vk.com" >>

\* SLUG_EXTRACTOR['www.twitch.tv']
SlugWww(u) ==
    LET pathParts == Split(u.pathname, "/")
        clipIndex == IndexOf(pathParts, Str("clip"))
    IN  IF clipIndex >= 0 /\ clipIndex + 1 < Len(pathParts)
        THEN At(pathParts, clipIndex + 1)
        ELSE Substring1(u.pathname)

\* SLUG_EXTRACTOR['clips.twitch.tv']
SlugClips(u) == Substring1(u.pathname)

\* extractor?.(url): undefined (None) for a hostname without an extractor.
SLUG_EXTRACTOR(u) ==
    CASE u.hostname = "www.twitch.tv"   -> Some(SlugWww(u))
      [] u.hostname = "clips.twitch.tv" -> Some(SlugClips(u))
      [] OTHER                          -> None

RECURSIVE AppendParents(_, _)
\* for (const parent of TWITCH_ANCESTORS) searchParams.append('parent', parent)
AppendParents(ps, parents) ==
    IF parents = << >> THEN ps
    ELSE AppendParents(ParamsAppend(ps, Str("parent"), Str(Head(parents))),
                       Tail(parents))

RECURSIVE SetParents(_, _)
SetParents(ps, parents) ==
    IF parents = << >> THEN ps
    ELSE SetParents(ParamsSet(ps, Str("parent"), Str(Head(parents))), Tail(parents))

\* Mutant of EmbeddingUrl: searchParams.set in place of searchParams.append.
EmbeddingUrlSetParents(slug) ==
    [base |-> Str("https://clips.twitch.tv/embed"),
     searchParams |-> SetParents(ParamsSet(<< >>, Str("clip"), slug),
                                 TWITCH_ANCESTORS)]

\* embeddingUrl after the clip and parent parameters are set.
EmbeddingUrl(slug) ==
    [base |-> Str("https://clips.twitch.tv/embed"),
     searchParams |-> AppendParents(ParamsSet(<< >>, Str("clip"), slug),
                                    TWITCH_ANCESTORS)]

\* Mutant of TwitchWidth: >= 500 in place of > 500.
TwitchWidthAtLeast(p) ==
    IF /\ IsSome(p.oembed) /\ IsSome(p.oembed[1].width)
       /\ p.oembed[1].width[1] # 0 /\ p.oembed[1].width[1] >= 500
    THEN p.oembed[1].width[1] ELSE 1280

\* (post.oembed?.width && post.oembed.width > 500) ? post.oembed.width : 1280
TwitchWidth(p) ==
    IF /\ IsSome(p.oembed) /\ IsSome(p.oembed[1].width)
       /\ p.oembed[1].width[1] # 0 /\ p.oembed[1].width[1] > 500
    THEN p.oembed[1].width[1] ELSE 1280

\* (post.oembed?.height && post.oembed.height > 500) ? post.oembed.height : 720
TwitchHeight(p) ==
    IF /\ IsSome(p.oembed) /\ IsSome(p.oembed[1].height)
       /\ p.oembed[1].height[1] # 0 /\ p.oembed[1].height[1] > 500
    THEN p.oembed[1].height[1] ELSE 720

\* post.oembed?.thumbnail_url
OembedThumbnail(p) ==
    IF IsSome(p.oembed) THEN p.oembed[1].thumbnail_url ELSE None

\* The calls twitchClipEmbed makes on head once it has a slug.
TwitchEmit(slug, p) ==
    LET width  == TwitchWidth(p)
        height == TwitchHeight(p)
    IN  << Meta("twitter:card", Str("player")),
           Video(UrlToString(EmbeddingUrl(slug)), width, height, "text/html") >>
        \o (IF Truthy(OembedThumbnail(p))
            THEN << Image(OembedThumbnail(p)[1], width, height) >>
            ELSE << >>)

\* The calls one run of twitchClipEmbed(p, u, head) makes on head:
\* none when the slug is not a string.
TwitchCalls(u, p) ==
    LET slug == SLUG_EXTRACTOR(u)
    IN  IF ~IsSome(slug) THEN << >> ELSE TwitchEmit(slug[1], p)

\* The whole of twitchClipEmbed: it has no suspension point.
TwitchClipEmbed ==
    /\ pc = "start"
    /\ handler = "twitch"
    /\ head' = head \o TwitchCalls(url, post)
    /\ pc' = "done"
    /\ UNCHANGED << handler, url, post, fetches, resp >>

\* ------------------------------------------------------------ inputs
RECURSIVE SeqsUpTo(_, _)
\* The sequences over set of length 1..n.
SeqsUpTo(set, n) ==
    IF n = 0 THEN {}
    ELSE LET shorter == SeqsUpTo(set, n - 1)
         IN  {<< x >> : x \in set} \cup shorter
             \cup {Append(q, x) : q \in shorter, x \in set}

RECURSIVE JoinPath(_)
\* The pathname whose segments are segs: "/" before each segment.
JoinPath(segs) ==
    IF segs = << >> THEN << >>
    ELSE Str("/") \o Head(segs) \o JoinPath(Tail(segs))

TwitchSegments ==
    { << >>, Str("clip"), Str("someuser"), << "Abc", "&", "parent", "=", "evil.example" >> }

TwitchHosts == { "www.twitch.tv", "clips.twitch.tv", "m.twitch.tv" }

OembedDims == { None, Some(0), Some(500), Some(501) }
OembedThumbnails == { None, Some(<< >>), Some(Str("https://thumbs.example/t.jpg")) }
Oembeds ==
    { None } \cup
    { Some([width |-> w, height |-> h, thumbnail_url |-> t]) :
        w \in OembedDims, h \in OembedDims, t \in OembedThumbnails }

TwitchUrls ==
    { [hostname |-> h, pathname |-> JoinPath(segs), v |-> None] :
        h \in TwitchHosts, segs \in SeqsUpTo(TwitchSegments, MaxSegs) }

\* ------------------------------------------------------------ youtube.ts
DigitValue(tok) ==
    CASE tok = "0" -> 0 [] tok = "1" -> 1 [] tok = "2" -> 2 [] tok = "3" -> 3
      [] tok = "4" -> 4 [] tok = "5" -> 5 [] tok = "6" -> 6 [] tok = "7" -> 7
      [] tok = "8" -> 8 [] tok = "9" -> 9 [] OTHER -> -1

\* The JavaScript number NaN.
NaN == -1

RECURSIVE ParseDigits(_, _)
ParseDigits(s, acc) ==
    IF s = << >> \/ DigitValue(Head(s)) = -1 THEN acc
    ELSE ParseDigits(Tail(s), 10 * acc + DigitValue(Head(s)))

\* parseInt(s) of an unsigned string: its leading decimal digits, NaN with none.
ParseInt(s) ==
    IF s = << >> \/ DigitValue(Head(s)) = -1 THEN NaN ELSE ParseDigits(s, 0)

DigitToken(d) ==
    CASE d = 0 -> "0" [] d = 1 -> "1" [] d = 2 -> "2" [] d = 3 -> "3" [] d = 4 -> "4"
      [] d = 5 -> "5" [] d = 6 -> "6" [] d = 7 -> "7" [] d = 8 -> "8" [] OTHER -> "9"

RECURSIVE NumberToString(_)
\* Number.prototype.toString() of a non-negative integer or NaN.
NumberToString(n) ==
    IF n = NaN THEN Str("NaN")
    ELSE IF n < 10 THEN Str(DigitToken(n))
    ELSE NumberToString(n \div 10) \o Str(DigitToken(n % 10))

\* The link the handler was called with, as a string.
Href(u) ==
    Str("https://") \o Str(u.hostname) \o u.pathname
    \o (IF IsSome(u.v) THEN << "?", "v", "=" >> \o u.v[1] ELSE << >>)

\* url.pathname.startsWith('/clip/')
IsClipPath(u) == StartsWith(u.pathname, << "/", "clip", "/" >>)

\* (post.oembed?.width && post.oembed.width > 500) ? post.oembed.width : 1280
ClipWidth(p) ==
    IF /\ IsSome(p.oembed) /\ IsSome(p.oembed[1].width)
       /\ p.oembed[1].width[1] # 0 /\ p.oembed[1].width[1] > 500
    THEN p.oembed[1].width[1] ELSE 1280

\* (post.oembed?.height && post.oembed.height > 500) ? post.oembed.height : 720
ClipHeight(p) ==
    IF /\ IsSome(p.oembed) /\ IsSome(p.oembed[1].height)
       /\ p.oembed[1].height[1] # 0 /\ p.oembed[1].height[1] > 500
    THEN p.oembed[1].height[1] ELSE 720

\* Mutant of ClipEmit: the player is emitted inside the thumbnail's branch.
ClipEmitNested(clipEmbed, thumbnail, p) ==
    IF Truthy(thumbnail)
    THEN << Image(thumbnail[1], ClipWidth(p), ClipHeight(p)) >>
         \o (IF Truthy(clipEmbed)
             THEN << Meta("twitter:card", Str("player")),
                     Video(clipEmbed[1], ClipWidth(p), ClipHeight(p), "text/html") >>
             ELSE << >>)
    ELSE << >>

\* The calls of the clip branch on head, given the two scraped attributes.
ClipEmit(clipEmbed, thumbnail, p) ==
    LET width  == ClipWidth(p)
        height == ClipHeight(p)
    IN  (IF Truthy(thumbnail) THEN << Image(thumbnail[1], width, height) >> ELSE << >>)
        \o (IF Truthy(clipEmbed)
            THEN << Meta("twitter:card", Str("player")),
                    Video(clipEmbed[1], width, height, "text/html") >>
            ELSE << >>)

\* Mutant of YOUTUBE_EXTRACTOR: the v parameter is read on any other host.
YoutubeExtractorAnyHost(u) ==
    IF u.hostname = "youtu.be" THEN Some(Substring1(u.pathname)) ELSE u.v

\* YOUTUBE_EXTRACTOR[url.hostname]?.(url) ?? null
YOUTUBE_EXTRACTOR(u) ==
    CASE u.hostname = "youtu.be"        -> Some(Substring1(u.pathname))
      [] u.hostname = "www.youtube.com" -> u.v
      [] u.hostname = "youtube.com"     -> u.v
      [] OTHER                          -> None

\* `https://koutube.com/api/watch?v=${id}`
KoutubeApiUrl(id) == Str("https://koutube.com/api/watch?v=") \o id

\* `https://img.youtube.com/vi/${id}/maxresdefault.jpg`
StaticThumbnail(id) ==
    Str("https://img.youtube.com/vi/") \o id \o Str("/maxresdefault.jpg")

\* s || dflt
OrDefault(s, dflt) == IF Truthy(s) THEN s[1] ELSE dflt

\* if (koutubeData.error) throw new Error(koutubeData.error)
ApiThrows(r) == Truthy(r.error)

\* parseInt(koutubeData.videoWidth || '1280')
ApiWidth(r) == ParseInt(OrDefault(r.videoWidth, << "1", "2", "8", "0" >>))

\* parseInt(koutubeData.videoHeight || '720')
ApiHeight(r) == ParseInt(OrDefault(r.videoHeight, << "7", "2", "0" >>))

\* Mutant of PlayerCalls: the player URL is the platform's embed URL of the id.
PlayerCallsNativeEmbed(r, id) ==
    IF Truthy(r.playerStreamUrl)
    THEN << Meta("twitter:card", Str("player")),
            Meta("og:video", r.playerStreamUrl[1]),
            Meta("og:video:secure_url", r.playerStreamUrl[1]),
            Meta("twitter:player", Str("https://www.youtube.com/embed/") \o id) >>
    ELSE << >>

\* if (videoUrl) { head.meta(...) x 9 }
PlayerCalls(r, id) ==
    LET videoUrl == r.playerStreamUrl
        width    == ApiWidth(r)
        height   == ApiHeight(r)
    IN  IF Truthy(videoUrl)
        THEN << Meta("twitter:card", Str("player")),
                Meta("og:video", videoUrl[1]),
                Meta("og:video:secure_url", videoUrl[1]),
                Meta("og:video:type", Str("video/mp4")),
                Meta("og:video:width", NumberToString(width)),
                Meta("og:video:height", NumberToString(height)),
                Meta("twitter:player", videoUrl[1]),
                Meta("twitter:player:width", NumberToString(width)),
                Meta("twitter:player:height", NumberToString(height)) >>
        ELSE << >>

\* if (thumbnailUrl) head.image(thumbnailUrl, ...) else head.image(static, ...)
ThumbnailCall(r, id) ==
    IF Truthy(r.image)
    THEN << Image(r.image[1], ApiWidth(r), ApiHeight(r)) >>
    ELSE << Image(StaticThumbnail(id), ApiWidth(r), ApiHeight(r)) >>

\* Mutant of TryBlock: the error field is looked at after the directives
\* are emitted.
TryBlockLateThrow(r, id) ==
    [calls |-> PlayerCalls(r, id) \o ThumbnailCall(r, id), threw |-> ApiThrows(r)]

\* Mutant of TryBlock: the error field is not looked at.
TryBlockIgnoresError(r, id) ==
    [calls |-> PlayerCalls(r, id) \o ThumbnailCall(r, id), threw |-> FALSE]

\* The try block after the await, on the parsed JSON object r: the calls it
\* makes on head and whether it ends by throwing.
TryBlock(r, id) ==
    IF ApiThrows(r) THEN [calls |-> << >>, threw |-> TRUE]
    ELSE [calls |-> PlayerCalls(r, id) \o ThumbnailCall(r, id), threw |-> FALSE]

\* The catch block.
Fallback(id) ==
    << Meta("twitter:card", Str("summary_large_image")),
       Image(StaticThumbnail(id), 1280, 720) >>

\* What the awaited page fetch can deliver: a rejection (network failure,
\* timeout, unreadable body), or a page with its two meta attributes.
ScrapedAttrs(value) == { None, Some(<< >>), Some(value) }
PageResponses ==
    { [kind |-> "fail"] } \cup
    { [kind |-> "html", player |-> pl, image |-> im] :
        pl \in ScrapedAttrs(Str("https://www.youtube.com/embed/clipplayer")),
        im \in ScrapedAttrs(Str("https://i.ytimg.com/clip.jpg")) }

\* What the awaited API call can deliver: a rejection (network failure, a
\* body that is not JSON), the JSON value null, or a JSON object.
StreamUrl == Str("https://stream.koutube.example/video.mp4")
ApiDims ==
    { << None, None >>, << Some(<< "6", "4", "0" >>), Some(<< "3", "6", "0" >>) >>,
      << Some(<< >>), Some(<< "p", "x" >>) >> }
ApiResponses ==
    { [kind |-> "fail"], [kind |-> "null"] } \cup
    { [kind |-> "json", error |-> e, playerStreamUrl |-> s,
       videoWidth |-> d[1], videoHeight |-> d[2], image |-> im] :
        e \in { None, Some(<< >>), Some(Str("Video unavailable")) },
        s \in { None, Some(<< >>), Some(StreamUrl) },
        d \in ApiDims,
        im \in { None, Some(Str("https://koutube.example/thumb.jpg")) } }

\* youtubeEmbed up to its first suspension point or its return.
YoutubeBegin ==
    /\ pc = "start"
    /\ handler = "youtube"
    /\ IF IsClipPath(url)
       THEN /\ fetches' = Append(fetches, Href(url))
            /\ pc' = "awaitPage"
       ELSE LET id == YOUTUBE_EXTRACTOR(url)
            IN  IF Truthy(id)
                THEN /\ fetches' = Append(fetches, KoutubeApiUrl(id[1]))
                     /\ pc' = "awaitApi"
                ELSE /\ fetches' = fetches
                     /\ pc' = "done"
    /\ UNCHANGED << handler, url, post, head, resp >>

\* The clip branch from the settled page fetch to its end: the await is
\* outside any try, so a rejection leaves the handler as a rejection.
YoutubeClipPage ==
    /\ pc = "awaitPage"
    /\ \E r \in PageResponses :
         /\ resp' = r
         /\ IF r.kind = "fail"
            THEN /\ head' = head
                 /\ pc' = "threw"
            ELSE /\ head' = head \o ClipEmit(r.player, r.image, post)
                 /\ pc' = "done"
    /\ UNCHANGED << handler, url, post, fetches >>

\* The non-clip branch from the settled API call to its end: try and catch.
YoutubeApiResult ==
    /\ pc = "awaitApi"
    /\ \E r \in ApiResponses :
         LET id  == YOUTUBE_EXTRACTOR(url)[1]
             try == IF r.kind = "json" THEN TryBlock(r, id)
                    ELSE [calls |-> << >>, threw |-> TRUE]
         IN  /\ resp' = r
             /\ head' = head \o try.calls \o (IF try.threw THEN Fallback(id) ELSE << >>)
             /\ pc' = "done"
    /\ UNCHANGED << handler, url, post, fetches >>

YoutubeSegments == { << >>, Str("clip"), Str("dQw4w9WgXcQ") }

YoutubeHosts == { "youtu.be", "www.youtube.com", "youtube.com", "m.youtube.com" }

YoutubeUrls ==
    { [hostname |-> h, pathname |-> JoinPath(segs), v |-> q] :
        h \in YoutubeHosts, segs \in SeqsUpTo(YoutubeSegments, MaxSegs),
        q \in { None, Some(<< >>), Some(Str("dQw4w9WgXcQ")) } }

\* youtubeEmbed never reads thumbnail_url: its posts are drawn without one.
YoutubeOembeds == { o \in Oembeds : o = None \/ o[1].thumbnail_url = None }

Init ==
    /\ \/ /\ handler = "twitch"
          /\ url \in TwitchUrls
          /\ post \in { [oembed |-> o] : o \in Oembeds }
       \/ /\ handler = "youtube"
          /\ url \in YoutubeUrls
          /\ post \in { [oembed |-> o] : o \in YoutubeOembeds }
    /\ pc = "start"
    /\ head = << >>
    /\ fetches = << >>
    /\ resp = [kind |-> "none"]

Next ==
    \/ TwitchClipEmbed
    \/ YoutubeBegin
    \/ YoutubeClipPage
    \/ YoutubeApiResult

Spec == Init /\ [][Next]_vars

\* ------------------------------------------------------------ reading head
Done == pc = "done"

HeadOf(kind) == SelectSeq(head, LAMBDA d : d.kind = kind)

\* The twitter:card directives of head.
Cards == SelectSeq(head, LAMBDA d : d.kind = "meta" /\ d.property = "twitter:card")

IsPlayerCard(d) == d = Meta("twitter:card", Str("player"))

\* A directive that publishes a video or player URL.
IsPlayerUrlMeta(d) ==
    d.kind = "meta" /\ d.property \in { "og:video", "og:video:secure_url", "twitter:player" }

\* ------------------------------------------------------------ reading a URL
\* The reader's side of a published URL: what a client that parses the
\* string gets back (percent-decoding, "&" and "=" as separators).
FormDecodeToken(tok) ==
    CASE tok = "%2F" -> "/"
      [] tok = "%26" -> "&"
      [] tok = "%3D" -> "="
      [] tok = "%3F" -> "?"
      [] OTHER       -> tok

FormDecode(s) == [i \in 1..Len(s) |-> FormDecodeToken(s[i])]

RECURSIVE JoinWith(_, _)
JoinWith(ss, sep) ==
    IF ss = << >> THEN << >>
    ELSE IF Len(ss) = 1 THEN ss[1]
    ELSE ss[1] \o Str(sep) \o JoinWith(Tail(ss), sep)

QueryPairs(q) ==
    LET parts == Split(q, "&")
    IN  [i \in 1..Len(parts) |->
           LET kv == Split(parts[i], "=")
           IN  << FormDecode(kv[1]), FormDecode(JoinWith(Tail(kv), "=")) >>]

ParseUrl(s) ==
    LET q == IndexOf(s, "?")
    IN  IF q = -1 THEN [base |-> s, params |-> << >>]
        ELSE [base |-> SubSeq(s, 1, q), params |-> QueryPairs(SubSeq(s, q + 2, Len(s)))]

ParamsNamed(params, name) == SelectSeq(params, LAMBDA kv : kv[1] = Str(name))

\* A path segment that can be a user name or a slug: non-empty.
NamedSegments == TwitchSegments \ { << >> }

\* ------------------------------------------------------------ C1
\* C1: for a link on clips.twitch.tv with a non-empty path, twitchClipEmbed
\* emits one video directive; its URL reads back as https://clips.twitch.tv/embed
\* with exactly one clip parameter, whose value is the whole path after the
\* leading "/", followed by one parent parameter per entry of the 17-entry
\* ancestor list, in list order, none missing and none repeated.
C1_ClipsHostEmbedUrl ==
    (Done /\ handler = "twitch" /\ url.hostname = "clips.twitch.tv"
          /\ url.pathname # Str("/"))
    => /\ Len(HeadOf("video")) = 1
       /\ LET published == ParseUrl(HeadOf("video")[1].url)
              parents   == ParamsNamed(published.params, "parent")
          IN  /\ published.base = Str("https://clips.twitch.tv/embed")
              /\ ParamsNamed(published.params, "clip")
                   = << << Str("clip"), Tail(url.pathname) >> >>
              /\ Len(TWITCH_ANCESTORS) = 17
              /\ Cardinality({ TWITCH_ANCESTORS[i] : i \in 1..17 }) = 17
              /\ parents = [i \in 1..17 |-> << Str("parent"), Str(TWITCH_ANCESTORS[i]) >>]
              /\ Len(published.params) = 18

\* A clips.twitch.tv run whose slug holds "&" and "=" has published its embed.
C1_Witness ==
    /\ Done /\ handler = "twitch" /\ url.hostname = "clips.twitch.tv"
    /\ url.pathname = << "/", "Abc", "&", "parent", "=", "evil.example" >>
    /\ Len(HeadOf("video")) = 1

\* ------------------------------------------------------------ C2
\* C2: for every user name U and slug S, a run on https://www.twitch.tv/U/clip/S
\* publishes the clip parameter S and makes exactly the calls a run on
\* https://clips.twitch.tv/S makes with the same post.
C2_WwwSameAsClips ==
    \A U \in NamedSegments, slugS \in NamedSegments :
      (Done /\ handler = "twitch" /\ url.hostname = "www.twitch.tv"
            /\ url.pathname = JoinPath(<< U, Str("clip"), slugS >>))
      => /\ head = TwitchCalls([hostname |-> "clips.twitch.tv",
                                pathname |-> JoinPath(<< slugS >>), v |-> None], post)
         /\ Len(HeadOf("video")) = 1
         /\ ParamsNamed(ParseUrl(HeadOf("video")[1].url).params, "clip")
              = << << Str("clip"), slugS >> >>

\* ------------------------------------------------------------ C3
OembedDim(axis) ==
    IF IsSome(post.oembed) THEN post.oembed[1][axis] ELSE None

\* The size the claim gives an axis: the oembed value when present and
\* strictly greater than 500, the default otherwise.
ClaimedDim(axis, dflt) ==
    IF IsSome(OembedDim(axis)) /\ OembedDim(axis)[1] > 500
    THEN OembedDim(axis)[1] ELSE dflt

\* C3: in twitchClipEmbed and in the clip branch of youtubeEmbed every video
\* and image directive carries the oembed width when present and > 500 and
\* 1280 otherwise, and the oembed height when present and > 500 and 720
\* otherwise, each axis on its own.
C3_EmittedSize ==
    (handler = "twitch" \/ (handler = "youtube" /\ IsClipPath(url)))
    => \A i \in 1..Len(head) :
         head[i].kind \in { "video", "image" }
         => /\ head[i].width = ClaimedDim("width", 1280)
            /\ head[i].height = ClaimedDim("height", 720)

\* A twitch run with oembed 500 x 501 has emitted a 1280 x 501 video and image.
C3_Witness ==
    /\ Done /\ handler = "twitch"
    /\ OembedDim("width") = Some(500) /\ OembedDim("height") = Some(501)
    /\ Len(HeadOf("video")) = 1 /\ Len(HeadOf("image")) = 1
    /\ HeadOf("video")[1].width = 1280 /\ HeadOf("image")[1].height = 501

\* ------------------------------------------------------------ C4
\* The video id of a non-clip link, read off the link.
LinkId ==
    IF url.hostname = "youtu.be" THEN Tail(url.pathname) ELSE url.v[1]

ApiFailed == resp.kind \in { "fail", "null" }
ApiErrorString == resp.kind = "json" /\ Truthy(resp.error)
ApiNoStream == resp.kind = "json" /\ ~Truthy(resp.error) /\ ~Truthy(resp.playerStreamUrl)

\* C4: on a non-clip link with a video id, when the API call fails, answers
\* with an error string or answers without a stream URL, youtubeEmbed ends
\* normally with no video or player directive and exactly one image
\* directive; after a failure or an error string head is exactly the card
\* summary_large_image and the static maxresdefault image at 1280 x 720.
C4_ThumbnailFallback ==
    (handler = "youtube" /\ ~IsClipPath(url)
       /\ (ApiFailed \/ ApiErrorString \/ ApiNoStream))
    => /\ Done
       /\ HeadOf("video") = << >>
       /\ \A i \in 1..Len(head) : ~IsPlayerUrlMeta(head[i])
       /\ Len(HeadOf("image")) = 1
       /\ (ApiFailed \/ ApiErrorString)
          => head = << Meta("twitter:card", Str("summary_large_image")),
                       Image(<< "https://img.youtube.com/vi/" >> \o LinkId
                               \o << "/maxresdefault.jpg" >>, 1280, 720) >>

\* The API answered with an error string and a stream URL; the fallback was emitted.
C4_Witness ==
    /\ Done /\ handler = "youtube" /\ ApiErrorString
    /\ Truthy(resp.playerStreamUrl)
    /\ Len(head) = 2

\* ------------------------------------------------------------ C5
\* C5: youtubeEmbed never ends by propagating a failure of one of its
\* fetches (the page scrape of a clip link, the API call) to its caller.
C5_NeverPropagates == handler = "youtube" => pc # "threw"

\* ------------------------------------------------------------ C6
YoutubeNoId ==
    /\ handler = "youtube" /\ ~IsClipPath(url)
    /\ \/ url.hostname \notin { "youtu.be", "www.youtube.com", "youtube.com" }
       \/ url.hostname \in { "www.youtube.com", "youtube.com" } /\ ~Truthy(url.v)
       \/ url.hostname = "youtu.be" /\ url.pathname = Str("/")

TwitchNoExtractor ==
    handler = "twitch" /\ url.hostname \notin { "www.twitch.tv", "clips.twitch.tv" }

\* C6: without an id (youtubeEmbed on a non-clip link of another host, or
\* with no or an empty v parameter, or with an empty youtu.be path;
\* twitchClipEmbed on a host other than its two) the handler emits nothing,
\* fetches nothing and ends normally.
C6_DeclinesSilently ==
    (YoutubeNoId \/ TwitchNoExtractor)
    => head = << >> /\ fetches = << >> /\ pc \in { "start", "done" }

\* youtubeEmbed has returned on m.youtube.com although the link has a v parameter.
C6_Witness ==
    /\ Done /\ handler = "youtube" /\ url.hostname = "m.youtube.com"
    /\ Truthy(url.v) /\ ~IsClipPath(url)

\* ------------------------------------------------------------ C7
\* C7: on a non-clip link youtubeEmbed emits no video directive, and every
\* og:video, og:video:secure_url and twitter:player directive carries
\* exactly the stream URL the API returned.
C7_OnlyResolvedStream ==
    (handler = "youtube" /\ ~IsClipPath(url))
    => /\ HeadOf("video") = << >>
       /\ \A i \in 1..Len(head) :
            IsPlayerUrlMeta(head[i])
            => /\ resp.kind = "json"
               /\ Truthy(resp.playerStreamUrl)
               /\ head[i].content = resp.playerStreamUrl[1]

\* The three URL directives were emitted for a returned stream URL.
C7_Witness ==
    /\ Done /\ handler = "youtube" /\ ~IsClipPath(url)
    /\ Len(SelectSeq(head, IsPlayerUrlMeta)) = 3

\* ------------------------------------------------------------ C8
\* C8: in the clip branch, after a successful page fetch, youtubeEmbed ends
\* normally; it emits an image directive iff the twitter:image attribute is
\* present and non-empty, and the player card with a video directive iff the
\* twitter:player attribute is present and non-empty (nothing with both
\* absent); and the clip branch never calls the direct-stream API.
C8_ClipAttributes ==
    (handler = "youtube" /\ IsClipPath(url))
    => /\ \A i \in 1..Len(fetches) : fetches[i] = Href(url)
       /\ Len(fetches) <= 1
       /\ resp.kind \notin { "json", "null" }
       /\ resp.kind = "html"
          => /\ Done
             /\ Len(HeadOf("image")) = (IF Truthy(resp.image) THEN 1 ELSE 0)
             /\ Len(HeadOf("video")) = (IF Truthy(resp.player) THEN 1 ELSE 0)
             /\ Len(Cards) = (IF Truthy(resp.player) THEN 1 ELSE 0)
             /\ Truthy(resp.image) => HeadOf("image")[1].url = resp.image[1]
             /\ Truthy(resp.player)
                => /\ HeadOf("video")[1].url = resp.player[1]
                   /\ IsPlayerCard(Cards[1])
             /\ Len(head) = Len(HeadOf("image")) + Len(HeadOf("video")) + Len(Cards)

\* A clip page with a player but no thumbnail: the player alone was emitted.
C8_Witness ==
    /\ Done /\ handler = "youtube" /\ IsClipPath(url)
    /\ resp.kind = "html" /\ Truthy(resp.player) /\ resp.image = None
    /\ Len(head) = 2

\* ------------------------------------------------------------ C9
\* A link of one of the two twitch hosts from which no slug can be taken:
\* the empty path, or a www.twitch.tv path whose clip segment has nothing
\* after it.
NoSlugInPath ==
    \/ url.pathname = Str("/")
    \/ /\ url.hostname = "www.twitch.tv"
       /\ LET parts == Split(url.pathname, "/")
              c     == IndexOf(parts, Str("clip"))
          IN  c >= 0 /\ (c + 1 >= Len(parts) \/ At(parts, c + 1) = << >>)

\* C9: whenever twitchClipEmbed emits anything, the published clip parameter
\* is a non-empty slug; on a www.twitch.tv or clips.twitch.tv link from
\* which no slug can be taken it emits nothing.
C9_NoSlugNoEmbed ==
    (Done /\ handler = "twitch" /\ url.hostname \in { "www.twitch.tv", "clips.twitch.tv" })
    => /\ NoSlugInPath => head = << >>
       /\ head # << >>
          => ParamsNamed(ParseUrl(HeadOf("video")[1].url).params, "clip")[1][2] # << >>

\* ------------------------------------------------------------ C10
\* C10: in the calls of one run, every video or player directive comes after
\* a twitter:card=player directive, there is at most one twitter:card and at
\* most one image directive, and the cards player and summary_large_image
\* never both appear.
C10_DirectiveOrder ==
    /\ \A i \in 1..Len(head) :
         (head[i].kind = "video" \/ IsPlayerUrlMeta(head[i]))
         => \E j \in 1..(i - 1) : IsPlayerCard(head[j])
    /\ Len(Cards) <= 1
    /\ Len(HeadOf("image")) <= 1
    /\ ~ /\ \E i \in 1..Len(head) : IsPlayerCard(head[i])
         /\ \E i \in 1..Len(head) :
              head[i] = Meta("twitter:card", Str("summary_large_image"))

\* The API returned a stream URL and an error-free body with a thumbnail:
\* the player directives and then the image were emitted, with no fallback.
C10_Witness ==
    /\ Done /\ handler = "youtube" /\ resp.kind = "json"
    /\ Truthy(resp.playerStreamUrl) /\ Truthy(resp.image)
    /\ Len(head) = 10
    /\ IsPlayerCard(head[1]) /\ head[10].kind = "image"

====
